---- MODULE Spec2Model ----
(***************************************************************************)
(* Model of scripts/sum_tables.js: the number parser                       *)
(* parseNumberFromString, the token regex applied to every table cell,     *)
(* and the sequential per-URL scraping loop that adds page subtotals to    *)
(* grandTotal.                                                             *)
(*                                                                         *)
(* Texts are sequences of one-character strings.  A JavaScript number is   *)
(* modelled as an exact decimal [ok |-> TRUE, m |-> mantissa, e |-> count  *)
(* of fractional digits] (value m / 10^e, kept in lowest form), and null   *)
(* as the record with ok = FALSE.  Binary rounding of doubles and the      *)
(* sign of zero are not modelled.  Of the white space of JavaScript the    *)
(* alphabet holds the blank and the line feed.                             *)
(***************************************************************************)
EXTENDS Integers, Sequences, FiniteSets, TLC

\* ------------------------------------------------------------------ bounds
\* longest enumerated text (longer texts enter only through Examples)
MaxLen == 4
\* number of URLs of the list that the run visits
NumPages == 2

\* ------------------------------------------------------- character classes
Digits == {"0", "1", "2", "3", "4", "5", "6", "7", "8", "9"}

\* \d and [0-9]
IsDigit(c) == c \in Digits

\* a line terminator, which the "." of a regex without the s flag skips
IsLineBreak(c) == c = "\n"

\* \s, and what trim() removes: of the alphabet, the blank and the line feed
IsSpace(c) == c = " " \/ IsLineBreak(c)

DigitVal(c) ==
    CASE c = "0" -> 0 [] c = "1" -> 1 [] c = "2" -> 2 [] c = "3" -> 3
      [] c = "4" -> 4 [] c = "5" -> 5 [] c = "6" -> 6 [] c = "7" -> 7
      [] c = "8" -> 8 [] c = "9" -> 9

\* ------------------------------------------------------------ JS numbers
null == [ok |-> FALSE, m |-> 0, e |-> 0]

RECURSIVE Pow10(_)
Pow10(n) == IF n = 0 THEN 1 ELSE 10 * Pow10(n - 1)

\* lowest form of m / 10^e
RECURSIVE Num(_, _)
Num(m, e) ==
    IF e > 0 /\ m % 10 = 0 THEN Num(m \div 10, e - 1)
    ELSE [ok |-> TRUE, m |-> m, e |-> e]

Zero == Num(0, 0)

\* a + b  (the += of the subtotals)
Add(a, b) ==
    LET e == IF a.e > b.e THEN a.e ELSE b.e
    IN  Num(a.m * Pow10(e - a.e) + b.m * Pow10(e - b.e), e)

\* -Math.abs(value)
NegAbs(v) == IF v.m > 0 THEN [v EXCEPT !.m = -v.m] ELSE v

\* ----------------------------------------------------- String.prototype
RECURSIVE TrimLeft(_)
TrimLeft(s) ==
    IF s # <<>> /\ IsSpace(Head(s)) THEN TrimLeft(Tail(s)) ELSE s

RECURSIVE TrimRight(_)
TrimRight(s) ==
    IF s # <<>> /\ IsSpace(s[Len(s)]) THEN TrimRight(SubSeq(s, 1, Len(s) - 1))
    ELSE s

\* String(s).trim()
Trim(s) == TrimRight(TrimLeft(s))

\* the characters the class [^\d\.\-,\(\)\s] leaves in place
IsKept(c) == IsDigit(c) \/ c \in {".", "-", ",", "(", ")"} \/ IsSpace(c)

\* str.replace(/[^\d\.\-,\(\)\s]/g, '')
StripOther(s) == SelectSeq(s, IsKept)

NotParen(c) == c \notin {"(", ")"}

\* str.replace(/[()]/g, '')
StripParens(s) == SelectSeq(s, NotParen)

NotSpace(c) == ~IsSpace(c)

\* str.replace(/\s+/g, '')
StripSpaces(s) == SelectSeq(s, NotSpace)

NotComma(c) == c # ","

\* str.replace(/,/g, '')
StripCommas(s) == SelectSeq(s, NotComma)

NotDot(c) == c # "."

\* str.replace(/\./g, '')
StripDots(s) == SelectSeq(s, NotDot)

IsDot(c) == c = "."

\* (str.match(/\./g) || []).length
dotCount(s) == Len(SelectSeq(s, IsDot))

\* str.lastIndexOf('.'), 1-based; 0 when there is none
RECURSIVE lastDotIndex(_)
lastDotIndex(s) ==
    IF s = <<>> THEN 0
    ELSE IF s[Len(s)] = "." THEN Len(s)
    ELSE lastDotIndex(SubSeq(s, 1, Len(s) - 1))

\* KeepLastDot with the final dot removed as well
KeepLastDot_DropAll(s) == StripDots(s)

\* str.slice(0, lastDotIndex).replace(/\./g, '') + str.slice(lastDotIndex)
KeepLastDot(s) ==
    LET i == lastDotIndex(s)
    IN  StripDots(SubSeq(s, 1, i - 1)) \o SubSeq(s, i, Len(s))

\* str.replace(/,/g, '.')
CommaToDot(s) == [i \in 1..Len(s) |-> IF s[i] = "," THEN "." ELSE s[i]]

\* /^\s*\(.*\)\s*$/.test(str): white space, "(", any characters but line
\* terminators, ")", white space
isParenNeg(s) ==
    LET t == Trim(s)
    IN  /\ Len(t) >= 2
        /\ t[1] = "("
        /\ t[Len(t)] = ")"
        /\ \A i \in 2..(Len(t) - 1) : ~IsLineBreak(t[i])

\* ---------------------------------------------------------------- Number
RECURSIVE IntOf(_)
IntOf(ds) ==
    IF ds = <<>> THEN 0
    ELSE 10 * IntOf(SubSeq(ds, 1, Len(ds) - 1)) + DigitVal(ds[Len(ds)])

\* digits [. digits] | . digits, with at least one digit
IsUnsignedDecimal(s) ==
    /\ \A i \in 1..Len(s) : IsDigit(s[i]) \/ s[i] = "."
    /\ dotCount(s) <= 1
    /\ \E i \in 1..Len(s) : IsDigit(s[i])

UnsignedValue(s) ==
    LET d    == lastDotIndex(s)
        int  == IF d = 0 THEN s ELSE SubSeq(s, 1, d - 1)
        frac == IF d = 0 THEN <<>> ELSE SubSeq(s, d + 1, Len(s))
    IN  Num(IntOf(int \o frac), Len(frac))

\* Number(str) on a string of digits, '.', ',' and '-': the empty string is
\* 0, a decimal literal with an optional leading '-' is its value, anything
\* else is NaN (returned here as null, which is how the caller treats it)
Number(s) ==
    IF s = <<>> THEN Zero
    ELSE LET neg  == Head(s) = "-"
             body == IF neg THEN Tail(s) ELSE s
         IN  IF IsUnsignedDecimal(body)
             THEN LET v == UnsignedValue(body)
                  IN  IF neg THEN [v EXCEPT !.m = -v.m] ELSE v
             ELSE null

\* ------------------------------------------------- parseNumberFromString
\* str after lines 34-53: symbols, parentheses, blanks and commas removed,
\* every dot but the last removed
Cleaned(s) ==
    LET a == StripSpaces(StripParens(StripOther(Trim(s))))
    IN  IF dotCount(a) <= 1 THEN StripCommas(a)
        ELSE KeepLastDot(StripCommas(a))

\* lines 56-62: Number(str), else Number of str with ',' read as '.'
ParseFloat(str) ==
    LET value == Number(str)
    IN  IF value.ok THEN value ELSE Number(CommaToDot(str))

\* line 64
ApplyParenNeg(neg, value) == IF neg THEN NegAbs(value) ELSE value

parseNumberFromString(s) ==
    IF Trim(s) = <<>> THEN null
    ELSE LET value == ParseFloat(Cleaned(s))
         IN  IF ~value.ok THEN null
             ELSE ApplyParenNeg(isParenNeg(StripOther(Trim(s))), value)

\* ------------------------------------------------------------ token regex
\* /[\-()]*\s*[0-9][0-9\.,\(\)\s]*[0-9]/g
IsSign(c) == c \in {"-", "(", ")"}

\* the body class without \s
IsBody_NoSpace(c) == IsDigit(c) \/ c \in {".", ",", "(", ")"}

IsBody(c) == IsDigit(c) \/ c \in {".", ",", "(", ")"} \/ IsSpace(c)

\* first index >= i that [\-()]* does not consume
RECURSIVE SkipSign(_, _)
SkipSign(s, i) ==
    IF i <= Len(s) /\ IsSign(s[i]) THEN SkipSign(s, i + 1) ELSE i

\* first index >= i that \s* does not consume
RECURSIVE SkipSpace(_, _)
SkipSpace(s, i) ==
    IF i <= Len(s) /\ IsSpace(s[i]) THEN SkipSpace(s, i + 1) ELSE i

\* first index >= i that [0-9\.,\(\)\s]* does not consume
RECURSIVE SkipBody(_, _)
SkipBody(s, i) ==
    IF i <= Len(s) /\ IsBody(s[i]) THEN SkipBody(s, i + 1) ELSE i

\* the greedy body gives characters back until the closing [0-9] matches:
\* the last digit in lo..hi, 0 when there is none
RECURSIVE LastDigit(_, _, _)
LastDigit(s, lo, hi) ==
    IF hi < lo THEN 0
    ELSE IF IsDigit(s[hi]) THEN hi
    ELSE LastDigit(s, lo, hi - 1)

\* index of the last character of the match that starts at p, 0 if none
MatchAt(s, p) ==
    LET q == SkipSpace(s, SkipSign(s, p))
    IN  IF q <= Len(s) /\ IsDigit(s[q])
        THEN LastDigit(s, q + 1, SkipBody(s, q + 1) - 1)
        ELSE 0

\* the matches found scanning from p: leftmost first, then on from its end
RECURSIVE MatchFrom(_, _)
MatchFrom(s, p) ==
    IF p > Len(s) THEN <<>>
    ELSE LET e == MatchAt(s, p)
         IN  IF e = 0 THEN MatchFrom(s, p + 1)
             ELSE <<SubSeq(s, p, e)>> \o MatchFrom(s, e + 1)

\* s.match(regex), with null (no match) as the empty sequence, which the
\* caller's "if (!tokens) continue" makes equivalent
Match(s) == MatchFrom(s, 1)

\* lines 160-163: the inner loop over one cell's tokens
RECURSIVE SumTokens(_)
SumTokens(tokens) ==
    IF tokens = <<>> THEN Zero
    ELSE LET v == parseNumberFromString(Head(tokens))
             rest == SumTokens(Tail(tokens))
         IN  IF v.ok THEN Add(v, rest) ELSE rest

\* lines 157-164 (and 148-155): pageNumbersTotal over the cell texts
RECURSIVE pageNumbersTotal(_)
pageNumbersTotal(cells) ==
    IF cells = <<>> THEN Zero
    ELSE Add(SumTokens(Match(Head(cells))), pageNumbersTotal(Tail(cells)))

\* line 168 with = in place of +=
AddSubtotal_Assign(total, subtotal) == subtotal

\* line 168: grandTotal += pageNumbersTotal
AddSubtotal(total, subtotal) == Add(total, subtotal)

\* ------------------------------------------------------------------ inputs
Alphabet == {"1", "2", ".", ",", "-", "(", ")", " ", "\n", "$"}

Texts == UNION {[1..n -> Alphabet] : n \in 0..MaxLen}

T_5 == <<"5">>
T_10 == <<"1", "0">>
T_20 == <<"2", "0">>
T_42 == <<"4", "2">>
T_10_20 == <<"1", "0", " ", "2", "0">>
T_1234c56 == <<"1", "2", "3", "4", ",", "5", "6">>
T_p1c234d56p == <<"(", "1", ",", "2", "3", "4", ".", "5", "6", ")">>
T_pm5p == <<"(", "-", "5", ")">>
T_1d234d567 == <<"1", ".", "2", "3", "4", ".", "5", "6", "7">>
T_1d5 == <<"1", ".", "5">>
T_m2 == <<"-", "2">>
T_Revenue ==
    <<"R", "e", "v", "e", "n", "u", "e", ":", " ", "$", "1", ",", "2", "0", "0">>
T_Cost == <<"C", "o", "s", "t", ":", " ", "(", "3", "0", "0", ")">>

ExampleTexts ==
    {T_5, T_10, T_20, T_10_20, T_1234c56, T_p1c234d56p, T_pm5p, T_1d234d567,
     T_Revenue, T_Cost}

RevenueCost == <<T_Revenue, T_Cost>>

\* what 'table td, table th' can hold on a page
TableChoices == {<<>>, <<T_10, T_20>>, RevenueCost, <<T_10_20>>, <<T_1d5, T_m2>>}

\* what the role-based selector can hold on a page
RoleChoices == {<<>>, <<T_42>>}

\* lines 13-24, cut to NumPages entries; a URL is named by its position
urls == [i \in 1..NumPages |-> i]

\* -------------------------------------------------------------------- state
VARIABLES
    world,       \* url -> the cell texts the page serves to each selector
    pc,          \* where the async function stands
    idx,         \* position in urls of the page being processed
    grandTotal,  \* line 73
    visited,     \* the 'Visiting' lines
    subtotals,   \* the 'Page subtotal' lines
    errors,      \* the 'Error processing' lines
    reported,    \* the 'GRAND TOTAL' line, null until printed
    exitCode,    \* -1 while the process runs
    fault,       \* the rejection nothing caught, "none" if there is none
    cellTexts,   \* argument list of a direct call of the pure functions
    op,          \* which pure function was called
    text,        \* the string passed to it
    tokens,      \* result of the token regex
    value,       \* result of parseNumberFromString
    subtotal     \* result of the accumulation loop

driverVars ==
    <<world, pc, idx, grandTotal, visited, subtotals, errors, reported, exitCode,
      fault>>

coreVars == <<cellTexts, op, text, tokens, value, subtotal>>

vars == <<driverVars, coreVars>>

CoreIdle ==
    /\ cellTexts = <<>>
    /\ op = "idle"
    /\ text = <<>>
    /\ tokens = <<>>
    /\ value = null
    /\ subtotal = Zero

DriverIdle ==
    /\ world = <<>>
    /\ pc = "off"
    /\ idx = 0
    /\ grandTotal = Zero
    /\ visited = <<>>
    /\ subtotals = <<>>
    /\ errors = <<>>
    /\ reported = null
    /\ exitCode = -1
    /\ fault = "none"

\* ------------------------------------------------------------ the run loop
AwaitPoints == {"goto", "wait", "evaluate", "cells", "alt"}

\* lines 69-74: browser, context and page exist, grandTotal = 0
Init ==
    /\ world \in [1..NumPages -> [table : TableChoices, role : RoleChoices]]
    /\ pc = "loop"
    /\ idx = 0
    /\ grandTotal = Zero
    /\ visited = <<>>
    /\ subtotals = <<>>
    /\ errors = <<>>
    /\ reported = null
    /\ exitCode = -1
    /\ fault = "none"
    /\ CoreIdle

\* lines 76-79: next url, 'Visiting', page.goto is awaited
Visit ==
    /\ pc = "loop"
    /\ idx < Len(urls)
    /\ idx' = idx + 1
    /\ visited' = Append(visited, urls[idx + 1])
    /\ pc' = "goto"
    /\ UNCHANGED <<world, grandTotal, subtotals, errors, reported, exitCode, fault>>
    /\ UNCHANGED coreVars

\* line 79 resolves; line 81 is awaited
GotoOk ==
    /\ pc = "goto"
    /\ pc' = "wait"
    /\ UNCHANGED <<world, idx, grandTotal, visited, subtotals, errors, reported, exitCode, fault>>
    /\ UNCHANGED coreVars

\* line 81 resolves; page.evaluate of line 84 is awaited
WaitOk ==
    /\ pc = "wait"
    /\ pc' = "evaluate"
    /\ UNCHANGED <<world, idx, grandTotal, visited, subtotals, errors, reported, exitCode, fault>>
    /\ UNCHANGED coreVars

\* line 84 resolves; lines 103-139 only match and discard; line 143 is awaited
EvaluateOk ==
    /\ pc = "evaluate"
    /\ pc' = "cells"
    /\ UNCHANGED <<world, idx, grandTotal, visited, subtotals, errors, reported, exitCode, fault>>
    /\ UNCHANGED coreVars

\* lines 167-168: the subtotal is logged and added, the loop goes on
FinishPage(total) ==
    /\ subtotals' = Append(subtotals, [url |-> urls[idx], subtotal |-> total])
    /\ grandTotal' = AddSubtotal(grandTotal, total)
    /\ pc' = "loop"

\* line 143 resolves with rawCellTexts: empty, and line 147 is awaited;
\* otherwise lines 157-168
CellsOk ==
    /\ pc = "cells"
    /\ LET rawCellTexts == world[urls[idx]].table
       IN  IF Len(rawCellTexts) = 0
           THEN /\ pc' = "alt"
                /\ UNCHANGED <<grandTotal, subtotals>>
           ELSE FinishPage(pageNumbersTotal(rawCellTexts))
    /\ UNCHANGED <<world, idx, visited, errors, reported, exitCode, fault>>
    /\ UNCHANGED coreVars

\* line 147 resolves with alt; lines 148-155, 167-168
AltOk ==
    /\ pc = "alt"
    /\ FinishPage(pageNumbersTotal(world[urls[idx]].role))
    /\ UNCHANGED <<world, idx, visited, errors, reported, exitCode, fault>>
    /\ UNCHANGED coreVars

\* the catch block leaving the loop (break) after logging
Catch_Break ==
    /\ pc \in AwaitPoints
    /\ errors' = Append(errors, [url |-> urls[idx], at |-> pc])
    /\ pc' = "loop"
    /\ idx' = Len(urls)
    /\ UNCHANGED <<world, grandTotal, visited, subtotals, reported, exitCode, fault>>
    /\ UNCHANGED coreVars

\* no catch block: the rejection leaves the async function and ends the process
Catch_Rethrow ==
    /\ pc \in AwaitPoints
    /\ pc' = "exit"
    /\ exitCode' = 1
    /\ UNCHANGED <<world, idx, grandTotal, visited, subtotals, errors, reported, fault>>
    /\ UNCHANGED coreVars

\* lines 169-171: an awaited call rejects; the error is logged, the loop goes on
Catch ==
    /\ pc \in AwaitPoints
    /\ errors' = Append(errors, [url |-> urls[idx], at |-> pc])
    /\ pc' = "loop"
    /\ UNCHANGED <<world, idx, grandTotal, visited, subtotals, reported, exitCode, fault>>
    /\ UNCHANGED coreVars

\* lines 174-178: the list is exhausted, GRAND TOTAL is printed,
\* browser.close is awaited
Report ==
    /\ pc = "loop"
    /\ idx = Len(urls)
    /\ reported' = grandTotal
    /\ pc' = "close"
    /\ UNCHANGED <<world, idx, grandTotal, visited, subtotals, errors, exitCode, fault>>
    /\ UNCHANGED coreVars

\* line 178 resolves; line 180: process.exit(0)
CloseOk ==
    /\ pc = "close"
    /\ pc' = "exit"
    /\ exitCode' = 0
    /\ UNCHANGED <<world, idx, grandTotal, visited, subtotals, errors, reported, fault>>
    /\ UNCHANGED coreVars

\* line 178 rejects: nothing catches it, the process dies on the unhandled
\* rejection with a non-zero code
CloseFail ==
    /\ pc = "close"
    /\ pc' = "exit"
    /\ exitCode' = 1
    /\ fault' = "browser.close"
    /\ UNCHANGED <<world, idx, grandTotal, visited, subtotals, errors, reported>>
    /\ UNCHANGED coreVars

Next ==
    \/ Visit
    \/ GotoOk
    \/ WaitOk
    \/ EvaluateOk
    \/ Catch
    \/ CellsOk
    \/ AltOk
    \/ Report
    \/ CloseOk
    \/ CloseFail

Spec == Init /\ [][Next]_vars

\* every awaited promise settles (page.goto within its 30000 ms timeout) and
\* the event loop then runs the continuation.  (Next lists Catch before CellsOk
\* and AltOk so that ENABLED Next is decided without summing a page.)
FairSpec == Spec /\ WF_vars(Next)

\* ------------------------------------------- the pure functions, called alone
CellLists ==
    {<<t>> : t \in Texts \cup ExampleTexts} \cup {<<>>, RevenueCost, <<T_10, T_20>>}

CoreInit ==
    /\ cellTexts \in CellLists
    /\ op = "init"
    /\ text = <<>>
    /\ tokens = <<>>
    /\ value = null
    /\ subtotal = Zero
    /\ DriverIdle

\* lines 158-159 on one cell text
Extract ==
    /\ op = "init"
    /\ \E i \in DOMAIN cellTexts :
          /\ text' = cellTexts[i]
          /\ tokens' = Match(cellTexts[i])
    /\ op' = "extract"
    /\ UNCHANGED <<cellTexts, value, subtotal>>
    /\ UNCHANGED driverVars

\* lines 26-66 on one string
Parse ==
    /\ op = "init"
    /\ \E i \in DOMAIN cellTexts :
          /\ text' = cellTexts[i]
          /\ value' = parseNumberFromString(cellTexts[i])
    /\ op' = "parse"
    /\ UNCHANGED <<cellTexts, tokens, subtotal>>
    /\ UNCHANGED driverVars

\* lines 144, 157-164 on a list of cell texts
Accumulate ==
    /\ op = "init"
    /\ subtotal' = pageNumbersTotal(cellTexts)
    /\ op' = "accumulate"
    /\ UNCHANGED <<cellTexts, text, tokens, value>>
    /\ UNCHANGED driverVars

CoreNext ==
    \/ Extract
    \/ Parse
    \/ Accumulate

CoreSpec == CoreInit /\ [][CoreNext]_vars

\* ================================================================= claims
DigitsOf(s) == SelectSeq(s, IsDigit)

IsBlank(c) == c \in {" ", "\n"}

NotBody(c) == ~(IsDigit(c) \/ c \in {".", ",", "(", ")"} \/ IsBlank(c))

\* "(N)": an opening parenthesis, two or more digits, a closing parenthesis
IsParenAmount(s) ==
    /\ Len(s) >= 4
    /\ s[1] = "("
    /\ s[Len(s)] = ")"
    /\ \A i \in 2..(Len(s) - 1) : IsDigit(s[i])

\* C1: accumulating ["Revenue: $1,200", "Cost: (300)"] gives 900, and a cell
\* "(N)" contributes -N to the subtotal.
C1_ParenAmountSubtracts ==
    op = "accumulate" =>
        /\ cellTexts = RevenueCost => subtotal = Num(900, 0)
        /\ (Len(cellTexts) = 1 /\ IsParenAmount(cellTexts[1])) =>
              subtotal = Num(-IntOf(DigitsOf(cellTexts[1])), 0)

\* digits, one comma with digits on both sides, no dot
IsCommaDecimal(s) ==
    /\ Len(s) >= 3
    /\ \A i \in 1..Len(s) : IsDigit(s[i]) \/ s[i] = ","
    /\ Len(SelectSeq(s, NotComma)) = Len(s) - 1
    /\ IsDigit(s[1])
    /\ IsDigit(s[Len(s)])

\* the digits before the separator at d as the integer part, those after it
\* as the fraction
DecimalAt(s, d) ==
    LET int  == DigitsOf(SubSeq(s, 1, d - 1))
        frac == DigitsOf(SubSeq(s, d + 1, Len(s)))
    IN  Num(IntOf(int \o frac), Len(frac))

RECURSIVE LastIndexOf(_, _)
LastIndexOf(s, c) ==
    IF s = <<>> THEN 0
    ELSE IF s[Len(s)] = c THEN Len(s)
    ELSE LastIndexOf(SubSeq(s, 1, Len(s) - 1), c)

\* C2: a token of digits with a single comma and no dot parses with the comma
\* as the decimal point; "1234,56" gives 1234.56.
C2_CommaIsDecimalPoint ==
    (op = "parse" /\ IsCommaDecimal(text)) =>
        value = DecimalAt(text, LastIndexOf(text, ","))

\* C3: a cell text with exactly one digit yields exactly one token, which
\* holds that digit.
C3_SingleDigitToken ==
    (op = "extract" /\ Len(DigitsOf(text)) = 1) =>
        /\ Len(tokens) = 1
        /\ DigitsOf(tokens[1]) = DigitsOf(text)

\* C5: a string without any digit (and the empty or blank string) parses to
\* null, never to a number.
C5_NoDigitIsNull ==
    (op = "parse" /\ DigitsOf(text) = <<>>) => value = null

RECURSIVE DropBlanksLeft(_)
DropBlanksLeft(s) ==
    IF s # <<>> /\ IsBlank(s[1]) THEN DropBlanksLeft(SubSeq(s, 2, Len(s))) ELSE s

RECURSIVE DropBlanksRight(_)
DropBlanksRight(s) ==
    IF s # <<>> /\ IsBlank(s[Len(s)])
    THEN DropBlanksRight(SubSeq(s, 1, Len(s) - 1))
    ELSE s

\* after removing the disallowed characters the string, surrounding white
\* space aside, opens with "(" and closes with ")"
IsEnclosed(s) ==
    LET t == DropBlanksRight(DropBlanksLeft(SelectSeq(s, IsKept)))
    IN  Len(t) >= 2 /\ t[1] = "(" /\ t[Len(t)] = ")"

\* C6: a token enclosed in parentheses parses to minus the absolute value of
\* the enclosed number: "(1,234.56)" is -1234.56, "(-5)" is -5, and the
\* result is never positive.
C6_ParenthesesNegate ==
    (op = "parse" /\ IsEnclosed(text)) =>
        LET inner == parseNumberFromString(SelectSeq(text, NotParen))
        IN  /\ value.ok => value.m <= 0
            /\ inner.ok =>
                  value = [ok |-> TRUE,
                           m |-> IF inner.m > 0 THEN -inner.m ELSE inner.m,
                           e |-> inner.e]
            /\ text = T_p1c234d56p => value = Num(-123456, 2)
            /\ text = T_pm5p => value = Num(-5, 0)

\* digits, dots and commas only, with at least one digit
IsDottedNumber(s) ==
    /\ \A i \in 1..Len(s) : IsDigit(s[i]) \/ s[i] \in {".", ","}
    /\ DigitsOf(s) # <<>>

\* C8: with more than one dot the commas go, every dot but the last goes and
\* the digit groups join, the last dot being the decimal point ("1.234.567"
\* is 1234.567); with exactly one dot and no comma that dot is the decimal
\* point.
C8_LastDotIsDecimalPoint ==
    (op = "parse" /\ IsDottedNumber(text)) =>
        LET dots   == Len(text) - Len(SelectSeq(text, NotDot))
            commas == Len(text) - Len(SelectSeq(text, NotComma))
        IN  /\ (dots > 1 \/ (dots = 1 /\ commas = 0)) =>
                  value = DecimalAt(text, LastIndexOf(text, "."))
            /\ text = T_1d234d567 => value = Num(1234567, 3)

C8_Witness ==
    /\ op = "parse"
    /\ text = T_1d234d567
    /\ value = Num(1234567, 3)

\* C10: digit groups separated only by blanks, commas, dots or parentheses
\* form one token, whose blanks are removed before parsing ("10 20" counts
\* as 1020); only a character outside that set separates two tokens.
C10_WhitespaceJoinsGroups ==
    /\ op = "extract" =>
          /\ Len(tokens) <= 1 + Len(SelectSeq(text, NotBody))
          /\ (SelectSeq(text, NotBody) = <<>> /\ Len(DigitsOf(text)) >= 2) =>
                (Len(tokens) = 1 /\ DigitsOf(tokens[1]) = DigitsOf(text))
    /\ (/\ op = "accumulate"
        /\ Len(cellTexts) = 1
        /\ \A i \in 1..Len(cellTexts[1]) :
              IsDigit(cellTexts[1][i]) \/ IsBlank(cellTexts[1][i])
        /\ Len(DigitsOf(cellTexts[1])) >= 2) =>
          subtotal = Num(IntOf(DigitsOf(cellTexts[1])), 0)

C10_Witness ==
    /\ op = "accumulate"
    /\ cellTexts = <<T_10_20>>
    /\ subtotal = Num(1020, 0)

\* ------------------------------------------------------- claims on the run
\* the subtotal a page yields when none of its awaited calls rejects
PageSubtotal(p) ==
    IF world[p].table = <<>> THEN pageNumbersTotal(world[p].role)
    ELSE pageNumbersTotal(world[p].table)

RECURSIVE SumOfPages(_)
SumOfPages(S) ==
    IF S = {} THEN Zero
    ELSE LET p == CHOOSE q \in S : TRUE
         IN  Add(PageSubtotal(p), SumOfPages(S \ {p}))

FailedUrls == {errors[i].url : i \in DOMAIN errors}

DoneUrls == {subtotals[i].url : i \in DOMAIN subtotals}

\* C4: a failed page contributes 0, the pages after it are still processed,
\* and the grand total reported is the sum of the subtotals of exactly the
\* pages that did not fail.
C4_FailedPagesContributeZero ==
    pc \in {"close", "exit"} =>
        /\ visited = urls
        /\ FailedUrls \cup DoneUrls = 1..NumPages
        /\ FailedUrls \cap DoneUrls = {}
        /\ reported = SumOfPages((1..NumPages) \ FailedUrls)
        /\ (/\ world[1].table = <<T_10, T_20>>
            /\ FailedUrls = (1..NumPages) \ {1}) => reported = Num(30, 0)

C4_Witness ==
    /\ pc = "exit"
    /\ world[1].table = <<T_10, T_20>>
    /\ FailedUrls = (1..NumPages) \ {1}
    /\ reported = Num(30, 0)

\* C9: in every state grandTotal is the sum of the subtotals of the pages
\* completed so far, each added once and whole; a page in progress or failed
\* part-way has added nothing.
C9_GrandTotalIsSumOfCompleted ==
    /\ grandTotal = SumOfPages(DoneUrls)
    /\ Cardinality(DoneUrls) = Len(subtotals)
    /\ \A i \in DOMAIN subtotals :
          subtotals[i].subtotal = PageSubtotal(subtotals[i].url)
    /\ DoneUrls \cap FailedUrls = {}
    /\ pc \in AwaitPoints => urls[idx] \notin DoneUrls

C9_Witness ==
    /\ \E i \in DOMAIN errors : errors[i].at = "alt" /\ errors[i].url = NumPages
    /\ Len(subtotals) = NumPages - 1
    /\ grandTotal = SumOfPages(1..(NumPages - 1))
    /\ grandTotal # Zero

\* C7: every page is attempted once, in list order and one at a time, and the
\* run then prints the grand total and exits with code 0, whatever pages
\* failed (a rejection of browser.close itself is not a page failure).
C7_EveryPageThenExit ==
    /\ [](/\ visited = SubSeq(urls, 1, idx)
          /\ Len(subtotals) + Len(errors) =
                idx - (IF pc \in AwaitPoints THEN 1 ELSE 0))
    /\ <>(/\ pc = "exit"
          /\ visited = urls
          /\ reported # null
          /\ fault = "none" => exitCode = 0)

C7_Witness ==
    /\ pc = "exit"
    /\ exitCode = 0
    /\ Len(errors) = NumPages

====
